---- MODULE Spec2Model ----
(***************************************************************************)
(* Invoice & Payment Ledger Engine of the garage back office                *)
(* (backend/app/services/invoice_service.py, credit_note_service.py,        *)
(* backend/app/models/invoice.py).                                          *)
(*                                                                          *)
(* Units: money is in cents; quantities are whole units; percentages and    *)
(* VAT rates are whole percents.  A product quantity*unit_price*percent     *)
(* is therefore an exact number of 1/100 cent ("c4") and a VAT on it an     *)
(* exact number of 1/10000 cent ("c6"), as Decimal computes them.           *)
(* Dates are day numbers counted from the first of January of BaseYear.     *)
(***************************************************************************)
EXTENDS Integers, Sequences, FiniteSets, TLC

----------------------------------------------------------------------------
(* Bounds of the model *)

NumClients == 2
NumWorkOrders == 3
MaxPayments == 2
MaxBatchLen == 2
MaxCreditNotes == 2
MaxTicks == 1
NumSessions == 2
MaxIssued == 3
MaxDeclarations == 2
MaxDeposits == 2

(* Program constants *)

MaxNumber == 9999
NumberWidth == 4
DefaultPaymentTerms == 30
StampDutyThreshold == 7747
StampDutyAmount == 200

(* Calendar of the model *)

BaseYear == 2025
DaysPerYear == 365
StartDay == 350
TickDays == 40

None == 0
NoDate == -1

Clients == 1..NumClients
WorkOrders == 1..NumWorkOrders
InvoiceIds == 1..NumWorkOrders
PaymentIds == 1..MaxPayments
CreditNoteIds == 1..MaxCreditNotes
Sessions == 1..NumSessions
DeclarationIds == 1..MaxDeclarations
DepositIds == 1..MaxDeposits

VARIABLES
    today,          \* date.today()
    clients,        \* table clients: fiscal profile of each client
    deposits,       \* table deposits
    workOrders,     \* table work_orders: status of each work order
    invoices,       \* table invoices (with their invoice_lines)
    payments,       \* table payments
    allocations,    \* table payment_allocations
    creditNotes,    \* table credit_notes
    declarations,   \* table intent_declarations
    archived,       \* documents 1..archived of year BaseYear, of each family,
                    \* issued to other clients before and settled in full
    lastResult,     \* outcome of the last operation
    sessions        \* open transactions of concurrent create_from_work_order calls

vars == <<today, clients, deposits, workOrders, invoices, payments, allocations,
          creditNotes, declarations, archived, lastResult, sessions>>

----------------------------------------------------------------------------
(* Generic helpers *)

RECURSIVE SumAmount(_)
\* sum(r.amount for r in S), S a set of rows with a column amount
SumAmount(S) ==
    IF S = {} THEN 0
    ELSE LET x == CHOOSE y \in S : TRUE IN x.amount + SumAmount(S \ {x})

RECURSIVE SumTotal(_)
\* sum(r.total for r in S), S a set of rows with a column total
SumTotal(S) ==
    IF S = {} THEN 0
    ELSE LET x == CHOOSE y \in S : TRUE IN x.total + SumTotal(S \ {x})

RECURSIVE SumSeqAmount(_)
\* sum(a["amount"] for a in s), s a list of entries
SumSeqAmount(s) ==
    IF s = <<>> THEN 0 ELSE Head(s).amount + SumSeqAmount(Tail(s))

Min(a, b) == IF a <= b THEN a ELSE b

Abs(x) == IF x < 0 THEN -x ELSE x

FreshId(pool, used) == CHOOSE i \in pool \ used : \A j \in pool \ used : i <= j

(* Decimal.quantize(Decimal("0.01"), rounding=ROUND_HALF_UP) of a value held
   in units of 1/scale cent: ties go away from zero. *)
RoundHalfUp(x, scale) ==
    IF x >= 0 THEN (2 * x + scale) \div (2 * scale)
    ELSE -((2 * (-x) + scale) \div (2 * scale))

YearOf(d) == BaseYear + (d \div DaysPerYear)

----------------------------------------------------------------------------
(* Document numbers "YYYY/NNNN": the year prefix and the digits after "/" *)

RECURSIVE Digits(_, _)
Digits(n, width) ==
    IF width = 0 /\ n = 0 THEN <<>>
    ELSE Append(Digits(n \div 10, IF width = 0 THEN 0 ELSE width - 1), n % 10)

\* f"{year_prefix}{next_number:04d}"
FormatNumber(year, n) == [year |-> year, digits |-> Digits(n, NumberWidth)]

RECURSIVE DigitsValue(_)
\* int(invoice_number.split("/")[1])
DigitsValue(ds) ==
    IF ds = <<>> THEN 0
    ELSE 10 * DigitsValue(SubSeq(ds, 1, Len(ds) - 1)) + ds[Len(ds)]

RECURSIVE StrLess(_, _)
\* string comparison of ORDER BY invoice_number
StrLess(a, b) ==
    IF a = <<>> THEN b # <<>>
    ELSE IF b = <<>> THEN FALSE
    ELSE IF Head(a) # Head(b) THEN Head(a) < Head(b)
    ELSE StrLess(Tail(a), Tail(b))

----------------------------------------------------------------------------
(* Outcome of an operation: the exception class that ended it, or "ok".
   total_paid is the amount the credit-limit check subtracted, -1 when the
   operation made no such check. *)

Result(kind) == [kind |-> kind, total_paid |-> -1]

----------------------------------------------------------------------------
(* models/invoice.py: computed properties *)

AllocationsOf(inv_id, table) == {a \in table : a.invoice_id = inv_id}

\* Invoice.paid_amount, over the rows of payment_allocations the session sees
paid_amount(inv, table) == SumAmount(AllocationsOf(inv.id, table))

\* Invoice.remaining_amount
remaining_amount(inv, table) == inv.total - paid_amount(inv, table)

CreditNotesOf(inv_id) == {cn \in creditNotes : cn.invoice_id = inv_id}

\* mutant: the branch for a partial payment tested before the overdue one
status_PartialBeforeOverdue(inv) ==
    IF CreditNotesOf(inv.id) # {} THEN "credited"
    ELSE IF paid_amount(inv, allocations) >= inv.total THEN "paid"
    ELSE IF paid_amount(inv, allocations) > 0 THEN "partial"
    ELSE IF today > inv.due_date /\ remaining_amount(inv, allocations) > 0
         THEN "overdue"
    ELSE "unpaid"

\* Invoice.status
status(inv) ==
    IF CreditNotesOf(inv.id) # {} THEN "credited"
    ELSE IF paid_amount(inv, allocations) >= inv.total THEN "paid"
    ELSE IF today > inv.due_date /\ remaining_amount(inv, allocations) > 0
         THEN "overdue"
    ELSE IF paid_amount(inv, allocations) > 0 THEN "partial"
    ELSE "unpaid"

\* Payment.allocated_amount
allocated_amount(p) == SumAmount({a \in allocations : a.payment_id = p.id})

\* Payment.unallocated_amount
unallocated_amount(p) == p.amount - allocated_amount(p)

----------------------------------------------------------------------------
(* InvoiceService._allocate_payment *)

\* A row of payment_allocations; idx is the position in the request, the
\* pair (payment_id, idx) stands for the row's own UUID.
AllocationRow(pid, idx, inv_id, amount) ==
    [payment_id |-> pid, idx |-> idx, invoice_id |-> inv_id, amount |-> amount]

\* mutant: the table without idx_payment_invoice_unique
AllocationConstraintsOk_NoUniqueIndex(table) ==
    \A a \in table : a.amount > 0

\* idx_payment_invoice_unique and check_allocation_amount_positive, as the
\* database enforces them when the session is flushed
AllocationConstraintsOk(table) ==
    /\ \A a, b \in table :
          (a.payment_id = b.payment_id /\ a.invoice_id = b.invoice_id) => a = b
    /\ \A a \in table : a.amount > 0

RECURSIVE ManualLoopError(_, _, _)
\* The loop over manual_allocations: every entry loads its invoice through
\* the session, and the session has flushed none of the rows added so far
\* (autoflush=False), so each entry is compared with the remaining amount
\* the table gave before the loop.  The first failing entry decides.
ManualLoopError(batch, client_id, table) ==
    IF batch = <<>> THEN "ok"
    ELSE LET e == Head(batch)
             found == {i \in invoices : i.id = e.invoice_id /\ i.client_id = client_id}
         IN IF found = {} THEN "not_found"
            ELSE LET inv == CHOOSE i \in found : TRUE
                 IN IF e.amount > remaining_amount(inv, table)
                    THEN "business_validation"
                    ELSE ManualLoopError(Tail(batch), client_id, table)

ManualRows(pid, batch) ==
    {AllocationRow(pid, k, batch[k].invoice_id, batch[k].amount) : k \in 1..Len(batch)}

\* mutant: the manual strategy without the check of the batch total
AllocateManual_NoSumCheck(p, batch, table) ==
    IF batch = <<>> THEN [kind |-> "business_validation", table |-> table]
    ELSE LET err == ManualLoopError(batch, p.client_id, table)
             new == table \cup ManualRows(p.id, batch)
         IN IF err # "ok" THEN [kind |-> err, table |-> table]
            ELSE IF ~AllocationConstraintsOk(new)
                 THEN [kind |-> "integrity_error", table |-> table]
            ELSE [kind |-> "ok", table |-> new]

\* strategy == "manual": outcome and the rows it leaves in the table
AllocateManual(p, batch, table) ==
    IF batch = <<>> THEN [kind |-> "business_validation", table |-> table]
    ELSE IF SumSeqAmount(batch) > p.amount
         THEN [kind |-> "business_validation", table |-> table]
    ELSE LET err == ManualLoopError(batch, p.client_id, table)
             new == table \cup ManualRows(p.id, batch)
         IN IF err # "ok" THEN [kind |-> err, table |-> table]
            ELSE IF ~AllocationConstraintsOk(new)
                 THEN [kind |-> "integrity_error", table |-> table]
            ELSE [kind |-> "ok", table |-> new]

\* ORDER BY Invoice.invoice_date ASC
FifoBefore(a, b) == a.invoice_date < b.invoice_date

\* ORDER BY (Invoice.due_date < today) DESC, Invoice.invoice_date ASC
OverdueFirstBefore(a, b) ==
    \/ (a.due_date < today) /\ ~(b.due_date < today)
    \/ ((a.due_date < today) = (b.due_date < today)) /\ a.invoice_date < b.invoice_date

\* mutant: a query without ORDER BY
Before_Unordered(strategy, a, b) == FALSE

\* the ORDER BY of the strategy's query
Before(strategy, a, b) ==
    IF strategy = "fifo" THEN FifoBefore(a, b) ELSE OverdueFirstBefore(a, b)

\* seq lists S once each in an order the query may return: rows the ORDER BY
\* does not separate come in any order
IsOrdering(seq, S, strategy) ==
    /\ \A x \in S : \E k \in DOMAIN seq : seq[k] = x
    /\ \A j, k \in DOMAIN seq : j < k => ~Before(strategy, seq[k], seq[j])

Orderings(S, strategy) ==
    {seq \in [1..Cardinality(S) -> S] : IsOrdering(seq, S, strategy)}

RECURSIVE GreedyRows(_, _, _, _, _)
\* for invoice in open_invoices: allocate min(remaining, invoice.remaining_amount)
GreedyRows(pid, open, k, remaining, table) ==
    IF k > Len(open) \/ remaining <= 0 THEN {}
    ELSE LET to_allocate == Min(remaining, remaining_amount(open[k], table))
         IN {AllocationRow(pid, k, open[k].id, to_allocate)}
            \cup GreedyRows(pid, open, k + 1, remaining - to_allocate, table)

\* the rows of ordered whose invoice still has a remaining amount, in order
OpenInvoices(ordered, table) ==
    SelectSeq(ordered, LAMBDA inv : remaining_amount(inv, table) > 0)

\* strategy == "fifo" / "overdue_first", for one order of the query's result
AllocateGreedy(p, ordered, table) ==
    LET open == OpenInvoices(ordered, table)
        new == table \cup GreedyRows(p.id, open, 1, p.amount, table)
    IN IF open = <<>> THEN [kind |-> "business_validation", table |-> table]
       ELSE IF ~AllocationConstraintsOk(new)
            THEN [kind |-> "integrity_error", table |-> table]
       ELSE [kind |-> "ok", table |-> new]

ClientInvoices(client_id) == {i \in invoices : i.client_id = client_id}

RECURSIVE ManualAccepted(_, _, _)
\* the entries of a manual batch the loop has added to the session when it
\* stops: those before the first entry that fails its checks
ManualAccepted(batch, client_id, table) ==
    IF batch = <<>> THEN <<>>
    ELSE IF ManualLoopError(<<Head(batch)>>, client_id, table) # "ok" THEN <<>>
    ELSE <<Head(batch)>> \o ManualAccepted(Tail(batch), client_id, table)

\* the allocation rows in the session when _allocate_payment raises
PendingAllocations(p, strategy, batch, table) ==
    IF strategy = "manual" /\ batch # <<>> /\ SumSeqAmount(batch) <= p.amount
    THEN table \cup ManualRows(p.id, ManualAccepted(batch, p.client_id, table))
    ELSE table

\* mutant: a session whose pending rows are committed when the request fails
RolledBack_KeepPending(persisted, pending) == pending

\* get_db: "except Exception: await session.rollback()"
RolledBack(persisted, pending) == persisted

\* _allocate_payment: the outcomes the strategy allows
AllocatePayment(p, strategy, batch, table) ==
    IF strategy = "manual" THEN {AllocateManual(p, batch, table)}
    ELSE IF strategy = "fifo"
         THEN {AllocateGreedy(p, ord, table) :
                  ord \in Orderings(ClientInvoices(p.client_id), "fifo")}
    ELSE IF strategy = "overdue_first"
         THEN {AllocateGreedy(p, ord, table) :
                  ord \in Orderings(ClientInvoices(p.client_id), "overdue_first")}
    ELSE {[kind |-> "business_validation", table |-> table]}


----------------------------------------------------------------------------
(* Snapshots read by the Invoice Builder: the items and part usages of each
   work order (models/work_order.py WorkOrderItem, models/part.py PartUsage
   with the part's stored vat_rate). *)

WorkOrderClient(wo) == IF wo <= 2 THEN 1 ELSE 2

WorkOrderItems(wo) ==
    CASE wo = 1 -> << [item_type |-> "labor", quantity |-> 1, unit_price |-> 10000] >>
      [] wo = 2 -> << [item_type |-> "service", quantity |-> 2, unit_price |-> 2500] >>
      [] OTHER  -> << [item_type |-> "labor", quantity |-> 1, unit_price |-> 4005] >>

PartUsages(wo) ==
    CASE wo = 1 -> << >>
      [] wo = 2 -> << [quantity |-> 1, unit_price |-> 3333, vat_rate |-> 10] >>
      [] OTHER  -> << [quantity |-> 3, unit_price |-> 1999, vat_rate |-> 0] >>

----------------------------------------------------------------------------
(* InvoiceService._generate_invoice_number *)

\* the invoice_number values LIKE 'year/%' the query sees
NumbersOfYear(year, family) ==
    (IF family = "invoice"
     THEN {i.invoice_number.digits : i \in {j \in invoices : j.invoice_number.year = year}}
     ELSE {c.credit_note_number.digits :
              c \in {d \in creditNotes : d.credit_note_number.year = year}})
    \cup (IF year = BaseYear /\ archived > 0
          THEN {Digits(archived, NumberWidth)} ELSE {})

\* ORDER BY number DESC LIMIT 1, then "last + 1" or 1
NextNumber(year, family) ==
    LET ns == NumbersOfYear(year, family)
    IN IF ns = {} THEN 1
       ELSE LET last == CHOOSE a \in ns : \A b \in ns : b = a \/ StrLess(b, a)
            IN DigitsValue(last) + 1

\* mutant: the generator without the capacity check
GenerateNumber_NoCapacityCheck(year, family) ==
    [kind |-> "ok", number |-> FormatNumber(year, NextNumber(year, family))]

\* the number, or the ConflictError of the capacity check
GenerateNumber(year, family) ==
    LET next_number == NextNumber(year, family)
    IN IF next_number > MaxNumber
       THEN [kind |-> "conflict", number |-> FormatNumber(year, 0)]
       ELSE [kind |-> "ok", number |-> FormatNumber(year, next_number)]


----------------------------------------------------------------------------
(* InvoiceService.create_from_work_order: the computation of the invoice *)

\* one InvoiceLine and the unrounded amounts the loops accumulate:
\* net4 = item_subtotal - discount_amount (1/100 cent), vat6 = its VAT
PricedLine(line_type, quantity, unit_price, discount_percent, vat_rate, line_number) ==
    LET item_subtotal == quantity * unit_price
        discount4 == IF discount_percent > 0 THEN item_subtotal * discount_percent ELSE 0
        net4 == item_subtotal * 100 - discount4
    IN [line |-> [line_type |-> line_type, quantity |-> quantity,
                  unit_price |-> unit_price, discount_percent |-> discount_percent,
                  discount_amount |-> RoundHalfUp(discount4, 100),
                  vat_rate |-> vat_rate, line_number |-> line_number],
        net4 |-> net4, vat6 |-> net4 * vat_rate]

\* part_usage.part.vat_rate or effective_vat_rate
PartVatRate(part_vat_rate, effective_vat_rate) ==
    IF part_vat_rate # 0 THEN part_vat_rate ELSE effective_vat_rate

\* the lines of the two loops, items first, then part usages
PricedLines(wo, discount_percent, effective_vat_rate) ==
    LET items == workOrders[wo].items
        parts == workOrders[wo].part_usages
    IN [k \in 1..(Len(items) + Len(parts)) |->
          IF k <= Len(items)
          THEN PricedLine(items[k].item_type, items[k].quantity, items[k].unit_price,
                          discount_percent, effective_vat_rate, k)
          ELSE LET pu == parts[k - Len(items)]
               IN PricedLine("part", pu.quantity, pu.unit_price, discount_percent,
                             PartVatRate(pu.vat_rate, effective_vat_rate), k)]

RECURSIVE SumNet4(_)
SumNet4(pl) == IF pl = <<>> THEN 0 ELSE Head(pl).net4 + SumNet4(Tail(pl))

RECURSIVE SumVat6(_)
SumVat6(pl) == IF pl = <<>> THEN 0 ELSE Head(pl).vat6 + SumVat6(Tail(pl))

RECURSIVE SumExempt4(_)
SumExempt4(pl) ==
    IF pl = <<>> THEN 0
    ELSE (IF Head(pl).line.vat_rate = 0 THEN Head(pl).net4 ELSE 0) + SumExempt4(Tail(pl))

\* FEAT 4: regime of the billing client
RegimeExempt(profile) ==
    profile.vat_regime = "RF19" \/ profile.vat_regime = "RF02" \/ profile.vat_exemption

RegimeNote(profile) ==
    IF profile.vat_regime = "RF19" THEN "RF19"
    ELSE IF profile.vat_regime = "RF02" THEN "RF02"
    ELSE "none"

\* FEAT 6: the declarations the query returns
ActiveIntents(client_id, invoice_date) ==
    {d \in declarations : /\ d.client_id = client_id
                          /\ d.is_active
                          /\ d.expiry_date >= invoice_date}

\* IntentDeclaration.remaining_amount
intent_remaining_amount(d) == d.amount_limit - d.used_amount

\* FEAT 7: the two aggregates of the credit-limit check
TotalInvoiced(client_id) == SumTotal(ClientInvoices(client_id))

RECURSIVE SumJoinedPaymentAmount(_)
\* SUM(Payment.amount) over the rows of Payment JOIN PaymentAllocation
SumJoinedPaymentAmount(rows) ==
    IF rows = {} THEN 0
    ELSE LET a == CHOOSE r \in rows : TRUE
             p == CHOOSE q \in payments : q.id = a.payment_id
         IN p.amount + SumJoinedPaymentAmount(rows \ {a})

\* ... JOIN Invoice WHERE Invoice.client_id == client.id
TotalPaid(client_id) ==
    SumJoinedPaymentAmount(
        {a \in allocations : \E i \in ClientInvoices(client_id) : i.id = a.invoice_id})


\* uniqueness of invoice_number and of work_order_id, and the CHECK
\* constraints of table invoices, as enforced at commit
InvoiceConstraintsOk(table) ==
    /\ \A a, b \in table : a.invoice_number = b.invoice_number => a = b
    /\ \A a, b \in table : a.work_order_id = b.work_order_id => a = b
    /\ \A a \in table : a.subtotal >= 0 /\ a.vat_amount >= 0 /\ a.total >= 0

Failure(kind) ==
    [kind |-> kind, total_paid |-> -1, invoice |-> {}, declarations |-> declarations]

\* mutant: a stamp duty due from the threshold on
StampDutyApplies_AtThreshold(exempt4) == exempt4 >= StampDutyThreshold * 100

\* exempt_subtotal > settings.stamp_duty_threshold, exempt4 in 1/100 cent
StampDutyApplies(exempt4) == exempt4 > StampDutyThreshold * 100

\* mutant: a declaration of intent applied without withdrawing the VAT
IntentTotal_KeepVat(subtotal, total0) == total0

\* FEAT 6: total = subtotal once the declaration of intent is applied
IntentTotal(subtotal, total0) == subtotal

\* Steps 6..13 (FEAT 1..6 and the stamp duty) for a completed, not yet
\* invoiced work order wo of client client_id, billed to billing_id, with a
\* free invoice id inv_id and the outcome gen of the number generator: the
\* invoice as it stands before the credit-limit check.
PriceInvoice(wo, client_id, billing_id, data, inv_id, gen) ==
    LET billing_client == clients[billing_id]
        invoice_date == IF data.invoice_date # NoDate THEN data.invoice_date ELSE today
        regime_exempt == RegimeExempt(billing_client)
        rate0 == IF regime_exempt THEN 0 ELSE data.vat_rate
        priced == PricedLines(wo, billing_client.default_discount_percent, rate0)
        subtotal4 == SumNet4(priced)
        subtotal == RoundHalfUp(subtotal4, 100)
        due_date == IF data.due_date # NoDate THEN data.due_date
                    ELSE invoice_date + (IF billing_client.payment_terms_days # 0
                                         THEN billing_client.payment_terms_days
                                         ELSE DefaultPaymentTerms)
        vat0 == IF regime_exempt THEN 0 ELSE RoundHalfUp(SumVat6(priced), 10000)
        exempt0 == IF regime_exempt THEN subtotal * 100 ELSE SumExempt4(priced)
        total0 == subtotal + vat0
        intents == IF regime_exempt THEN {} ELSE ActiveIntents(billing_id, invoice_date)
        has_intent == intents # {}
        active_intent == CHOOSE d \in intents : TRUE
        use_intent == has_intent /\ intent_remaining_amount(active_intent) >= total0
        is_vat_exempt == regime_exempt \/ use_intent
        effective_vat_rate == IF use_intent THEN 0 ELSE rate0
        vat_amount == IF use_intent THEN 0 ELSE vat0
        exempt4 == IF use_intent THEN subtotal * 100 ELSE exempt0
        total1 == IF use_intent THEN IntentTotal(subtotal, total0) ELSE total0
        lines == [k \in 1..Len(priced) |->
                    IF use_intent THEN [priced[k].line EXCEPT !.vat_rate = 0]
                    ELSE priced[k].line]
        declarations1 ==
            IF use_intent
            THEN (declarations \ {active_intent}) \cup
                 {[active_intent EXCEPT !.used_amount = active_intent.used_amount + total1]}
            ELSE declarations
        stamp_duty_applied == StampDutyApplies(exempt4)
        stamp_duty_amount == IF stamp_duty_applied THEN StampDutyAmount ELSE 0
        total == total1 + stamp_duty_amount
        invoice == [id |-> inv_id, work_order_id |-> wo, client_id |-> client_id,
                    bill_to_client_id |-> data.bill_to_client_id,
                    invoice_number |-> gen.number, invoice_date |-> invoice_date,
                    due_date |-> due_date, subtotal |-> subtotal,
                    vat_rate |-> effective_vat_rate, vat_amount |-> vat_amount,
                    total |-> total, vat_exemption |-> is_vat_exempt,
                    vat_notes |-> IF use_intent THEN "intent" ELSE RegimeNote(billing_client),
                    credit_limit_warning |-> FALSE,
                    stamp_duty_applied |-> stamp_duty_applied,
                    stamp_duty_amount |-> stamp_duty_amount, lines |-> lines]
    IN IF gen.kind # "ok" THEN Failure(gen.kind)
       ELSE IF subtotal4 <= 0 THEN Failure("business_validation")
       ELSE IF Cardinality(intents) > 1 THEN Failure("internal_error")
       ELSE IF has_intent /\ ~use_intent THEN Failure("business_validation")
       ELSE [kind |-> "ok", total_paid |-> -1, invoice |-> {invoice},
             declarations |-> declarations1]

\* FEAT 7: total_invoiced - total_paid of the client of the work order
CurrentExposure(client_id) == TotalInvoiced(client_id) - TotalPaid(client_id)

\* mutant: a credit-limit check that only ever warns
CreditLimitBlocks_Never(client) == FALSE

\* FEAT 7: the policy that turns an exceeded limit into an error
CreditLimitBlocks(client) == client.credit_limit_action = "block"

\* Steps 6..15: the priced invoice, then the credit-limit check (FEAT 7)
ComputeInvoice(wo, client_id, billing_id, data, inv_id, gen) ==
    LET client == clients[client_id]
        priced == PriceInvoice(wo, client_id, billing_id, data, inv_id, gen)
        invoice == CHOOSE i \in priced.invoice : TRUE
        limited == client.credit_limit # None /\ client.credit_limit > 0
        total_paid == IF limited THEN TotalPaid(client_id) ELSE -1
        exceeded == limited /\
                    CurrentExposure(client_id) + invoice.total > client.credit_limit
    IN IF priced.kind # "ok" THEN priced
       ELSE IF exceeded /\ CreditLimitBlocks(client)
            THEN [Failure("business_validation") EXCEPT !.total_paid = total_paid]
       ELSE [priced EXCEPT !.total_paid = total_paid,
                           !.invoice = {[invoice EXCEPT !.credit_limit_warning = exceeded]}]

\* the year of the invoice a request asks for
RequestYear(data) ==
    YearOf(IF data.invoice_date # NoDate THEN data.invoice_date ELSE today)

\* the client the invoice is made out to
BillingClient(wo, data) ==
    IF data.bill_to_client_id # None THEN data.bill_to_client_id
    ELSE workOrders[wo].client_id

\* db.commit() of Step 16: the IntegrityError becomes a ConflictError
CommitInvoice(out) ==
    IF out.kind = "ok" /\ ~InvoiceConstraintsOk(invoices \cup out.invoice)
    THEN [Failure("conflict") EXCEPT !.total_paid = out.total_paid]
    ELSE out

\* Steps 5..16 in one transaction
BuildInvoice(wo, client_id, billing_id, data, inv_id) ==
    CommitInvoice(ComputeInvoice(wo, client_id, billing_id, data, inv_id,
                                 GenerateNumber(RequestYear(data), "invoice")))

\* Steps 1..4: the error they raise, or "ok"
PreCheck(wo, data) ==
    IF wo \notin DOMAIN workOrders THEN "not_found"
    ELSE IF workOrders[wo].status # "completed" THEN "business_validation"
    ELSE IF \E i \in invoices : i.work_order_id = wo THEN "business_validation"
    ELSE IF data.bill_to_client_id # None /\ data.bill_to_client_id \notin DOMAIN clients
         THEN "not_found"
    ELSE "ok"

\* Steps 1..4, then the computation above
CreateFromWorkOrderOutcome(wo, data) ==
    IF PreCheck(wo, data) # "ok" THEN Failure(PreCheck(wo, data))
    ELSE BuildInvoice(wo, workOrders[wo].client_id, BillingClient(wo, data),
                      data, FreshId(InvoiceIds, {i.id : i \in invoices}))

----------------------------------------------------------------------------
(* Locks of the open transactions of create_from_work_order *)

\* mutant: a SELECT without FOR UPDATE
RowLocked_Never(t, wo) == FALSE

\* SELECT ... FOR UPDATE on the work order row: held by another transaction
RowLocked(t, wo) ==
    \E u \in Sessions \ {t} : sessions[u].pc # "idle" /\ sessions[u].wo = wo

\* pg_advisory_xact_lock(year): held from the call to the end of the transaction
HoldsAdvisoryLock(u, key) ==
    /\ sessions[u].pc \in {"locked", "numbered", "computed"}
    /\ RequestYear(sessions[u].data) = key

\* mutant: an advisory lock that never waits
AdvisoryLockFree_NoWait(t, key) == TRUE

\* the call returns only when no other transaction holds the key
AdvisoryLockFree(t, key) ==
    \A u \in Sessions \ {t} : ~HoldsAdvisoryLock(u, key)


----------------------------------------------------------------------------
(* CreditNoteService *)

\* sum(abs(cn.total) for cn in invoice.credit_notes)
RECURSIVE SumAbsTotal(_)
SumAbsTotal(S) ==
    IF S = {} THEN 0
    ELSE LET x == CHOOSE y \in S : TRUE IN Abs(x.total) + SumAbsTotal(S \ {x})

credited_amount(inv) == SumAbsTotal(CreditNotesOf(inv.id))

\* one CreditNoteLine for quantity units of an invoice line, with the
\* rounded subtotal and VAT the loop adds up
ReversedLine(line, quantity) ==
    LET gross == quantity * (-line.unit_price)
        discount4 == gross * line.discount_percent
        line_subtotal == RoundHalfUp(gross * 100 - discount4, 100)
        line_vat == RoundHalfUp(line_subtotal * line.vat_rate, 100)
    IN [line |-> [line EXCEPT !.quantity = quantity, !.unit_price = -line.unit_price],
        subtotal |-> line_subtotal, vat |-> line_vat]

RECURSIVE SumReversed(_, _)
SumReversed(rl, field) ==
    IF rl = <<>> THEN 0
    ELSE (IF field = "subtotal" THEN Head(rl).subtotal ELSE Head(rl).vat)
         + SumReversed(Tail(rl), field)

CreditNote(cn_id, inv, number, rl, stamp_duty) ==
    [id |-> cn_id, invoice_id |-> inv.id, client_id |-> inv.client_id,
     credit_note_number |-> number,
     subtotal |-> SumReversed(rl, "subtotal"),
     vat_amount |-> SumReversed(rl, "vat"),
     total |-> SumReversed(rl, "subtotal") + SumReversed(rl, "vat") + stamp_duty,
     stamp_duty_amount |-> stamp_duty,
     lines |-> [k \in 1..Len(rl) |-> rl[k].line]]

\* uniqueness of credit_note_number, as enforced at commit
CreditNoteConstraintsOk(table) ==
    \A a, b \in table : a.credit_note_number = b.credit_note_number => a = b

CnFailure(kind) == [kind |-> kind, note |-> {}]

CommitCreditNote(cn) ==
    IF ~CreditNoteConstraintsOk(creditNotes \cup {cn}) THEN CnFailure("conflict")
    ELSE [kind |-> "ok", note |-> {cn}]

\* create_from_invoice: full reversal
CreateFromInvoiceOutcome(invoice_id, cn_id) ==
    LET found == {i \in invoices : i.id = invoice_id}
        inv == CHOOSE i \in found : TRUE
        gen == GenerateNumber(YearOf(today), "credit_note")
        stamp_duty == IF inv.stamp_duty_applied THEN -inv.stamp_duty_amount ELSE 0
        rl == [k \in 1..Len(inv.lines) |-> ReversedLine(inv.lines[k], inv.lines[k].quantity)]
    IN IF found = {} THEN CnFailure("not_found")
       ELSE IF credited_amount(inv) >= inv.total THEN CnFailure("business_validation")
       ELSE IF gen.kind # "ok" THEN CnFailure(gen.kind)
       ELSE CommitCreditNote(CreditNote(cn_id, inv, gen.number, rl, stamp_duty))

RECURSIVE RequestLinesOk(_, _)
\* the checks of the loop over request.lines
RequestLinesOk(req, inv) ==
    IF req = <<>> THEN TRUE
    ELSE /\ Head(req).invoice_line_id \in 1..Len(inv.lines)
         /\ Head(req).quantity <= inv.lines[Head(req).invoice_line_id].quantity
         /\ RequestLinesOk(Tail(req), inv)

\* create_partial: partial reversal of the requested lines
CreatePartialOutcome(invoice_id, req, cn_id) ==
    LET found == {i \in invoices : i.id = invoice_id}
        inv == CHOOSE i \in found : TRUE
        gen == GenerateNumber(YearOf(today), "credit_note")
        rl == [k \in 1..Len(req) |->
                 ReversedLine(inv.lines[req[k].invoice_line_id], req[k].quantity)]
        new_total_abs == Abs(SumReversed(rl, "subtotal") + SumReversed(rl, "vat"))
    IN IF found = {} THEN CnFailure("not_found")
       ELSE IF gen.kind # "ok" THEN CnFailure(gen.kind)
       ELSE IF ~RequestLinesOk(req, inv) THEN CnFailure("business_validation")
       ELSE IF credited_amount(inv) + new_total_abs > inv.total
            THEN CnFailure("business_validation")
       ELSE CommitCreditNote(CreditNote(cn_id, inv, gen.number, rl, 0))


----------------------------------------------------------------------------
(* Requests *)

PaymentAmounts == {5000, 20000}
AllocationAmounts == {5000, 7200}
Strategies == {"fifo", "overdue_first", "manual"}

AllocationEntries ==
    [invoice_id : InvoiceIds, amount : AllocationAmounts]

Batches ==
    UNION {[1..n -> AllocationEntries] : n \in 0..MaxBatchLen}

DefaultData ==
    [invoice_date |-> NoDate, due_date |-> NoDate, vat_rate |-> 22,
     bill_to_client_id |-> None]

BuildRequests ==
    {DefaultData, [DefaultData EXCEPT !.vat_rate = 0]}

PartialRequests ==
    {<<[invoice_line_id |-> l, quantity |-> q]>> : l \in 1..2, q \in 1..3}

----------------------------------------------------------------------------
(* Initial state: the clients and their completed work orders, no ledger
   record of theirs yet; the year's earlier documents, if any, belong to
   other clients. *)

IdleSession == [pc |-> "idle"]

Profile(limit, action, regime, discount) ==
    [vat_regime |-> regime, vat_exemption |-> FALSE,
     default_discount_percent |-> discount, payment_terms_days |-> 30,
     credit_limit |-> limit, credit_limit_action |-> action]

InitState(action, issued) ==
    /\ today = StartDay
    /\ deposits = {}
    /\ clients = [c \in Clients |->
                     IF c = 1 THEN Profile(30000, action, "RF01", 0)
                     ELSE Profile(None, "warn", "RF01", 10)]
    /\ workOrders = [w \in WorkOrders |->
                        [client_id |-> WorkOrderClient(w), status |-> "completed",
                         items |-> WorkOrderItems(w), part_usages |-> PartUsages(w)]]
    /\ invoices = {}
    /\ payments = {}
    /\ allocations = {}
    /\ creditNotes = {}
    /\ declarations = {}
    /\ archived = issued
    /\ lastResult = Result("ok")
    /\ sessions = [t \in Sessions |-> IdleSession]

Init == InitState("block", 0)

----------------------------------------------------------------------------
(* Operations, each one transaction *)

\* the clock: date.today() moves on
Tick ==
    /\ today + TickDays <= StartDay + MaxTicks * TickDays
    /\ today' = today + TickDays
    /\ UNCHANGED <<clients, deposits, workOrders, invoices, payments, allocations,
                   creditNotes, declarations, archived, lastResult, sessions>>

\* InvoiceService.create_from_work_order
CreateFromWorkOrder(wo, data) ==
    LET out == CreateFromWorkOrderOutcome(wo, data)
    IN /\ invoices' = invoices \cup out.invoice
       /\ declarations' = out.declarations
       /\ workOrders' = IF out.kind = "ok"
                        THEN [workOrders EXCEPT ![wo].status = "invoiced"]
                        ELSE workOrders
       /\ lastResult' = [Result(out.kind)
                            EXCEPT !.total_paid = out.total_paid]
       /\ UNCHANGED <<sessions, today, clients, deposits, payments, allocations, creditNotes, archived>>

\* InvoiceService.delete
DeleteInvoice(invoice_id) ==
    LET found == {i \in invoices : i.id = invoice_id}
        inv == CHOOSE i \in found : TRUE
    IN IF found = {}
       THEN /\ lastResult' = Result("not_found")
            /\ UNCHANGED <<sessions, today, clients, deposits, workOrders, invoices, payments,
                           allocations, creditNotes, declarations, archived>>
       ELSE IF AllocationsOf(invoice_id, allocations) # {}
       THEN /\ lastResult' = Result("business_validation")
            /\ UNCHANGED <<sessions, today, clients, deposits, workOrders, invoices, payments,
                           allocations, creditNotes, declarations, archived>>
       ELSE /\ workOrders' =
                 IF workOrders[inv.work_order_id].status = "invoiced"
                 THEN [workOrders EXCEPT ![inv.work_order_id].status = "completed"]
                 ELSE workOrders
            /\ invoices' = invoices \ {inv}
            /\ creditNotes' = creditNotes \ CreditNotesOf(invoice_id)
            /\ lastResult' = Result("ok")
            /\ UNCHANGED <<sessions, today, clients, deposits, payments, allocations, declarations, archived>>

\* InvoiceService.create_payment
CreatePayment(client_id, amount, strategy, batch) ==
    /\ Cardinality(payments) < MaxPayments
    /\ LET p == [id |-> FreshId(PaymentIds, {q.id : q \in payments}),
                 client_id |-> client_id, amount |-> amount, reference |-> None]
       IN IF client_id \notin DOMAIN clients
          THEN /\ lastResult' = Result("not_found")
               /\ UNCHANGED <<payments, allocations>>
          ELSE \E out \in AllocatePayment(p, strategy, batch, allocations) :
                  /\ payments' = IF out.kind = "ok" THEN payments \cup {p}
                                  ELSE RolledBack(payments, payments \cup {p})
                  /\ allocations' =
                         IF out.kind = "ok" THEN out.table
                         ELSE RolledBack(allocations,
                                         PendingAllocations(p, strategy, batch, allocations))
                  /\ lastResult' = Result(out.kind)
    /\ UNCHANGED <<sessions, today, clients, deposits, workOrders, invoices, creditNotes,
                   declarations, archived>>

\* InvoiceService.reallocate_payment
ReallocatePayment(payment_id, batch) ==
    LET found == {q \in payments : q.id = payment_id}
        p == CHOOSE q \in found : TRUE
        kept == {a \in allocations : a.payment_id # payment_id}
        out == AllocateManual(p, batch, kept)
    IN /\ IF found = {}
          THEN /\ lastResult' = Result("not_found")
               /\ UNCHANGED allocations
          ELSE IF SumSeqAmount(batch) > p.amount
          THEN /\ lastResult' = Result("business_validation")
               /\ UNCHANGED allocations
          ELSE /\ allocations' =
                      IF out.kind = "ok" THEN out.table
                      ELSE RolledBack(allocations,
                                      PendingAllocations(p, "manual", batch, kept))
               /\ lastResult' = Result(out.kind)
       /\ UNCHANGED <<sessions, today, clients, deposits, workOrders, invoices, payments, creditNotes,
                      declarations, archived>>

\* InvoiceService.delete_payment
DeletePayment(payment_id) ==
    LET found == {q \in payments : q.id = payment_id}
    IN /\ payments' = payments \ found
       /\ allocations' = {a \in allocations : a.payment_id # payment_id}
       /\ lastResult' = Result(IF found = {} THEN "not_found" ELSE "ok")
       /\ UNCHANGED <<sessions, today, clients, deposits, workOrders, invoices, creditNotes,
                      declarations, archived>>

\* CreditNoteService.create_from_invoice
CreateFromInvoice(invoice_id) ==
    /\ Cardinality(creditNotes) < MaxCreditNotes
    /\ LET out == CreateFromInvoiceOutcome(invoice_id,
                      FreshId(CreditNoteIds, {c.id : c \in creditNotes}))
       IN /\ creditNotes' = creditNotes \cup out.note
          /\ lastResult' = Result(out.kind)
    /\ UNCHANGED <<sessions, today, clients, deposits, workOrders, invoices, payments, allocations,
                   declarations, archived>>

\* CreditNoteService.create_partial
CreatePartial(invoice_id, req) ==
    /\ Cardinality(creditNotes) < MaxCreditNotes
    /\ LET out == CreatePartialOutcome(invoice_id, req,
                      FreshId(CreditNoteIds, {c.id : c \in creditNotes}))
       IN /\ creditNotes' = creditNotes \cup out.note
          /\ lastResult' = Result(out.kind)
    /\ UNCHANGED <<sessions, today, clients, deposits, workOrders, invoices, payments, allocations,
                   declarations, archived>>

----------------------------------------------------------------------------
(* The intent-declaration API (api/v1/intent_declarations.py) *)

\* a value an IntentDeclarationUpdate leaves unset
Unset == -1

\* IntentDeclaration(...) as create_intent_declaration builds it
Declaration(id, client_id, amount_limit, expiry_date, is_active) ==
    [id |-> id, client_id |-> client_id, amount_limit |-> amount_limit,
     used_amount |-> 0, expiry_date |-> expiry_date, is_active |-> is_active]

\* create_intent_declaration
CreateIntentDeclaration(client_id, amount_limit, expiry_date, is_active) ==
    /\ Cardinality(declarations) < MaxDeclarations
    /\ IF client_id \notin DOMAIN clients
       THEN /\ lastResult' = Result("not_found")
            /\ UNCHANGED declarations
       ELSE /\ declarations' = declarations \cup
                  {Declaration(FreshId(DeclarationIds, {d.id : d \in declarations}),
                               client_id, amount_limit, expiry_date, is_active)}
            /\ lastResult' = Result("ok")
    /\ UNCHANGED <<sessions, today, clients, deposits, workOrders, invoices, payments,
                   allocations, creditNotes, archived>>

\* update_intent_declaration: the fields given are assigned in the order of
\* the handler, used_amount being checked against the limit just assigned
UpdateIntentDeclaration(declaration_id, data) ==
    LET found == {d \in declarations : d.id = declaration_id}
        declaration == CHOOSE d \in found : TRUE
        d1 == IF data.amount_limit # Unset
              THEN [declaration EXCEPT !.amount_limit = data.amount_limit]
              ELSE declaration
        d2 == IF data.used_amount # Unset
              THEN [d1 EXCEPT !.used_amount = data.used_amount] ELSE d1
        d3 == IF data.expiry_date # NoDate
              THEN [d2 EXCEPT !.expiry_date = data.expiry_date] ELSE d2
        d4 == IF data.is_active # "unset"
              THEN [d3 EXCEPT !.is_active = (data.is_active = "true")] ELSE d3
    IN /\ IF found = {}
          THEN /\ lastResult' = Result("not_found")
               /\ UNCHANGED declarations
          ELSE IF data.used_amount # Unset /\ data.used_amount > d1.amount_limit
          THEN /\ lastResult' = Result("business_validation")
               /\ UNCHANGED declarations
          ELSE /\ declarations' = (declarations \ found) \cup {d4}
               /\ lastResult' = Result("ok")
       /\ UNCHANGED <<sessions, today, clients, deposits, workOrders, invoices, payments,
                      allocations, creditNotes, archived>>

----------------------------------------------------------------------------
(* DepositService (services/deposit_service.py) *)

\* Deposit(...) as DepositService.create builds it
Deposit(id, client_id, amount) ==
    [id |-> id, client_id |-> client_id, amount |-> amount,
     status |-> "pending", invoice_id |-> None]

\* mutant: a status check that lets every deposit through
DepositPending_Always(deposit) == TRUE

\* deposit.status != DepositStatus.PENDING.value, negated
DepositPending(deposit) == deposit.status = "pending"

\* DepositService.create
CreateDeposit(client_id, amount) ==
    /\ Cardinality(deposits) < MaxDeposits
    /\ deposits' = deposits \cup
           {Deposit(FreshId(DepositIds, {d.id : d \in deposits}), client_id, amount)}
    /\ lastResult' = Result("ok")
    /\ UNCHANGED <<sessions, today, clients, workOrders, invoices, payments,
                   allocations, creditNotes, declarations, archived>>

\* what apply_to_invoice writes at its commit for a deposit and an invoice it
\* has read: the Payment, its single allocation and the deposit row
AppliedDeposit(deposit, invoice) ==
    LET payment == [id |-> FreshId(PaymentIds, {q.id : q \in payments}),
                    client_id |-> deposit.client_id, amount |-> deposit.amount,
                    reference |-> deposit.id]
    IN [payment |-> payment,
        allocation |-> AllocationRow(payment.id, 1, invoice.id, deposit.amount),
        deposit |-> [deposit EXCEPT !.status = "applied", !.invoice_id = invoice.id]]

\* the checks of apply_to_invoice on the rows it has read
ApplyCheck(found, target) ==
    IF found = {} THEN "not_found"
    ELSE IF ~DepositPending(CHOOSE d \in found : TRUE) THEN "business_validation"
    ELSE IF target = {} THEN "not_found"
    ELSE IF (CHOOSE d \in found : TRUE).amount > (CHOOSE i \in target : TRUE).total
         THEN "business_validation"
    ELSE "ok"

\* DepositService.apply_to_invoice
ApplyToInvoice(deposit_id, invoice_id) ==
    LET found == {d \in deposits : d.id = deposit_id}
        target == {i \in invoices : i.id = invoice_id}
        out == AppliedDeposit(CHOOSE d \in found : TRUE, CHOOSE i \in target : TRUE)
        check == ApplyCheck(found, target)
    IN /\ Cardinality(payments) < MaxPayments
       /\ IF check # "ok"
          THEN /\ lastResult' = Result(check)
               /\ UNCHANGED <<deposits, payments, allocations>>
          ELSE IF ~AllocationConstraintsOk(allocations \cup {out.allocation})
          THEN /\ lastResult' = Result("integrity_error")
               /\ UNCHANGED <<deposits, payments, allocations>>
          ELSE /\ payments' = payments \cup {out.payment}
               /\ allocations' = allocations \cup {out.allocation}
               /\ deposits' = (deposits \ found) \cup {out.deposit}
               /\ lastResult' = Result("ok")
       /\ UNCHANGED <<sessions, today, clients, workOrders, invoices, creditNotes,
                      declarations, archived>>

\* DepositService.refund
Refund(deposit_id) ==
    LET found == {d \in deposits : d.id = deposit_id}
        deposit == CHOOSE d \in found : TRUE
    IN /\ IF found = {}
          THEN /\ lastResult' = Result("not_found")
               /\ UNCHANGED deposits
          ELSE IF ~DepositPending(deposit)
          THEN /\ lastResult' = Result("business_validation")
               /\ UNCHANGED deposits
          ELSE /\ deposits' = (deposits \ found) \cup
                                 {[deposit EXCEPT !.status = "refunded"]}
               /\ lastResult' = Result("ok")
       /\ UNCHANGED <<sessions, today, clients, workOrders, invoices, payments,
                      allocations, creditNotes, declarations, archived>>

----------------------------------------------------------------------------
(* create_from_work_order as concurrent transactions under READ COMMITTED:
   one step per point where the transaction can wait or reads what others
   have committed. *)

Rollback(t, kind, total_paid) ==
    /\ sessions' = [sessions EXCEPT ![t] = IdleSession]
    /\ lastResult' = [Result(kind) EXCEPT !.total_paid = total_paid]

\* Steps 1..4: the row lock on the work order and the checks
TxnBegin(t, wo, data) ==
    /\ sessions[t].pc = "idle"
    /\ ~RowLocked(t, wo)
    /\ IF PreCheck(wo, data) # "ok"
       THEN Rollback(t, PreCheck(wo, data), -1)
       ELSE /\ sessions' = [sessions EXCEPT ![t] =
                               [pc |-> "checked", wo |-> wo, data |-> data]]
            /\ UNCHANGED lastResult
    /\ UNCHANGED <<today, clients, deposits, workOrders, invoices, payments, allocations,
                   creditNotes, declarations, archived>>

\* Step 5, first statement: the advisory lock of the year
TxnLock(t) ==
    /\ sessions[t].pc = "checked"
    /\ AdvisoryLockFree(t, RequestYear(sessions[t].data))
    /\ sessions' = [sessions EXCEPT ![t].pc = "locked"]
    /\ UNCHANGED <<today, clients, deposits, workOrders, invoices, payments, allocations,
                   creditNotes, declarations, archived, lastResult>>

\* Step 5, the rest: the last number of the year and the next one
TxnNumber(t) ==
    /\ sessions[t].pc = "locked"
    /\ LET gen == GenerateNumber(RequestYear(sessions[t].data), "invoice")
       IN IF gen.kind # "ok" THEN Rollback(t, gen.kind, -1)
          ELSE /\ sessions' = [sessions EXCEPT ![t] =
                                  [pc |-> "numbered", wo |-> sessions[t].wo,
                                   data |-> sessions[t].data, number |-> gen.number]]
               /\ UNCHANGED lastResult
    /\ UNCHANGED <<today, clients, deposits, workOrders, invoices, payments, allocations,
                   creditNotes, declarations, archived>>

\* Steps 6..15: lines, totals, declaration of intent, credit limit
TxnCompute(t) ==
    /\ sessions[t].pc = "numbered"
    /\ LET ses == sessions[t]
           out == ComputeInvoice(ses.wo, workOrders[ses.wo].client_id,
                                 BillingClient(ses.wo, ses.data), ses.data, None,
                                 [kind |-> "ok", number |-> ses.number])
       IN IF out.kind # "ok" THEN Rollback(t, out.kind, out.total_paid)
          ELSE /\ sessions' = [sessions EXCEPT ![t] =
                                  [pc |-> "computed", wo |-> ses.wo, data |-> ses.data,
                                   number |-> ses.number, out |-> out]]
               /\ UNCHANGED lastResult
    /\ UNCHANGED <<today, clients, deposits, workOrders, invoices, payments, allocations,
                   creditNotes, declarations, archived>>

\* Step 16: db.commit(), which also ends the locks
TxnCommit(t) ==
    /\ sessions[t].pc = "computed"
    /\ LET ses == sessions[t]
           computed == CHOOSE i \in ses.out.invoice : TRUE
           invoice == [computed EXCEPT !.id = FreshId(InvoiceIds, {i.id : i \in invoices})]
           out == CommitInvoice([ses.out EXCEPT !.invoice = {invoice}])
       IN /\ invoices' = invoices \cup out.invoice
          /\ declarations' = out.declarations
          /\ workOrders' = IF out.kind = "ok"
                           THEN [workOrders EXCEPT ![ses.wo].status = "invoiced"]
                           ELSE workOrders
          /\ Rollback(t, out.kind, out.total_paid)
    /\ UNCHANGED <<today, clients, deposits, payments, allocations, creditNotes, archived>>


----------------------------------------------------------------------------
(* Specification of the payment ledger: invoices are built, also with a
   past invoice date so that some are overdue, and payments are created,
   reallocated and deleted, one operation at a time. *)

LedgerWorkOrders == {1, 2}

PastData == [DefaultData EXCEPT !.invoice_date = StartDay - 40]

Next ==
    \/ \E wo \in LedgerWorkOrders, data \in {DefaultData, PastData} :
          CreateFromWorkOrder(wo, data)
    \/ \E c \in {1}, amount \in PaymentAmounts,
          strategy \in Strategies, batch \in Batches :
          /\ strategy # "manual" => batch = <<>>
          /\ CreatePayment(c, amount, strategy, batch)
    \/ \E p \in PaymentIds, batch \in Batches : ReallocatePayment(p, batch)
    \/ \E p \in PaymentIds : DeletePayment(p)

Spec == Init /\ [][Next]_vars

----------------------------------------------------------------------------
(* Properties of the payment ledger *)

\* C1: after any sequence of create_payment, reallocate_payment and
\* delete_payment, the allocations of every invoice sum to at most its
\* total: no remaining_amount is negative.
C1_InvoiceAllocationBound ==
    \A i \in invoices :
        /\ paid_amount(i, allocations) <= i.total
        /\ remaining_amount(i, allocations) >= 0

\* an invoice paid in full by the allocations of two different payments
C1_Witness ==
    \E i \in invoices :
        /\ remaining_amount(i, allocations) = 0
        /\ Cardinality({a.payment_id : a \in AllocationsOf(i.id, allocations)}) = 2

\* C2: the allocations of every persisted payment sum to at most its amount,
\* the rest is its unallocated_amount, and every allocation row belongs to a
\* persisted payment.
C2_PaymentAllocationBound ==
    /\ \A p \in payments :
          /\ allocated_amount(p) <= p.amount
          /\ unallocated_amount(p) >= 0
          /\ allocated_amount(p) + unallocated_amount(p) = p.amount
    /\ \A a \in allocations : \E p \in payments : p.id = a.payment_id

\* a payment split over two invoices that keeps an unallocated rest
C2_Witness ==
    \E p \in payments :
        /\ unallocated_amount(p) > 0
        /\ Cardinality({a \in allocations : a.payment_id = p.id}) = 2

\* the invoices of a batch all exist and belong to the client
BatchInvoicesFound(batch, client_id) ==
    \A k \in 1..Len(batch) :
        \E i \in ClientInvoices(client_id) : i.id = batch[k].invoice_id

\* the amount of the entries before k that target the invoice of entry k
EarlierInBatch(batch, k) ==
    SumSeqAmount(SelectSeq(SubSeq(batch, 1, k - 1),
                           LAMBDA e : e.invoice_id = batch[k].invoice_id))

\* entry k exceeds the effective remaining amount of its invoice
ExceedsEffectiveRemaining(batch, k, table) ==
    LET inv == CHOOSE i \in invoices : i.id = batch[k].invoice_id
    IN batch[k].amount > remaining_amount(inv, table) - EarlierInBatch(batch, k)

\* the same invoice appears more than once in the batch
HasDuplicateInvoice(batch) ==
    \E j, k \in 1..Len(batch) : j < k /\ batch[j].invoice_id = batch[k].invoice_id

\* C4: a manual batch with an entry that exceeds the effective remaining
\* amount of its invoice (persisted remaining minus the earlier entries of
\* the batch for that invoice) fails with a business-validation error.
C4_ManualBatchEffectiveRemaining ==
    [][\A amount \in PaymentAmounts, batch \in Batches :
          (/\ CreatePayment(1, amount, "manual", batch)
           /\ BatchInvoicesFound(batch, 1)
           /\ \E k \in 1..Len(batch) : ExceedsEffectiveRemaining(batch, k, allocations))
          => lastResult'.kind = "business_validation"]_vars

\* C5: a manual batch that names an invoice more than once, stays within the
\* remaining amount of every invoice and within the payment's amount,
\* succeeds: every entry becomes an allocation.
C5_ManualBatchDuplicateAllowed ==
    [][\A amount \in PaymentAmounts, batch \in Batches :
          (/\ CreatePayment(1, amount, "manual", batch)
           /\ HasDuplicateInvoice(batch)
           /\ BatchInvoicesFound(batch, 1)
           /\ SumSeqAmount(batch) <= amount
           /\ \A k \in 1..Len(batch) : ~ExceedsEffectiveRemaining(batch, k, allocations))
          => /\ lastResult'.kind = "ok"
             /\ Cardinality(allocations') = Cardinality(allocations) + Len(batch)
             /\ \A i \in invoices :
                   remaining_amount(i, allocations') =
                      remaining_amount(i, allocations)
                      - SumSeqAmount(SelectSeq(batch, LAMBDA e : e.invoice_id = i.id))]_vars


----------------------------------------------------------------------------
(* Specification of the status derivation: invoices are built, paid by the
   automatic strategies, reversed in full, and the clock moves on. *)

NextStatus ==
    \/ Tick
    \/ \E wo \in LedgerWorkOrders : CreateFromWorkOrder(wo, DefaultData)
    \/ \E amount \in PaymentAmounts, strategy \in {"fifo", "overdue_first"} :
          CreatePayment(1, amount, strategy, <<>>)
    \/ \E p \in PaymentIds : DeletePayment(p)
    \/ \E i \in InvoiceIds : CreateFromInvoice(i)

SpecStatus == Init /\ [][NextStatus]_vars

\* C6: Invoice.status is one of the five states, chosen in this order:
\* credited if the invoice has a credit note; else paid if paid_amount >=
\* total; else overdue if the due date is before today and something
\* remains; else partial if paid_amount > 0; else unpaid.
C6_StatusPrecedence ==
    \A i \in invoices :
        LET paid == paid_amount(i, allocations)
            credited == CreditNotesOf(i.id) # {}
            past_due == i.due_date < today /\ i.total - paid > 0
        IN /\ status(i) \in {"credited", "paid", "overdue", "partial", "unpaid"}
           /\ credited => status(i) = "credited"
           /\ (~credited /\ paid >= i.total) => status(i) = "paid"
           /\ (~credited /\ paid < i.total /\ past_due) => status(i) = "overdue"
           /\ (~credited /\ paid < i.total /\ ~past_due /\ paid > 0)
                 => status(i) = "partial"
           /\ (~credited /\ paid < i.total /\ ~past_due /\ paid <= 0)
                 => status(i) = "unpaid"

\* a partially paid invoice past its due date, reported overdue, next to one
\* paid in full past its due date, reported paid
C6_Witness ==
    /\ \E i \in invoices :
          /\ paid_amount(i, allocations) > 0
          /\ paid_amount(i, allocations) < i.total
          /\ i.due_date < today
          /\ status(i) = "overdue"
    /\ \E i \in invoices :
          /\ paid_amount(i, allocations) >= i.total
          /\ i.due_date < today
          /\ status(i) = "paid"


----------------------------------------------------------------------------
(* Specification of the reversals: invoices are built and reversed, in full
   or line by line. *)

NextReversal ==
    \/ \E wo \in WorkOrders, data \in BuildRequests : CreateFromWorkOrder(wo, data)
    \/ \E i \in InvoiceIds : CreateFromInvoice(i)
    \/ \E i \in InvoiceIds, req \in PartialRequests : CreatePartial(i, req)

SpecReversal == Init /\ [][NextReversal]_vars

\* C3: the absolute totals of the credit notes of an invoice never add up
\* to more than the invoice total, whatever mix of full and partial
\* reversals created them.
C3_CreditNoteBound ==
    \A i \in invoices : credited_amount(i) <= i.total

----------------------------------------------------------------------------
(* Specification of the numbering: documents are issued, reversed and
   deleted across a change of year, starting from an empty year or from a
   year whose sequence is one short of its capacity. *)

InitNumbering == InitState("block", 0) \/ InitState("block", MaxNumber - 1)

\* a partial reversal of one unit of the first line
OneUnitRequest == <<[invoice_line_id |-> 1, quantity |-> 1]>>

\* deletions stop once a sequence has grown past MaxIssued without being full
DeletionsBounded ==
    \A n \in {DigitsValue(i.invoice_number.digits) : i \in invoices}
            \cup {DigitsValue(c.credit_note_number.digits) : c \in creditNotes} :
        n <= MaxIssued \/ n = MaxNumber

NextNumbering ==
    \/ Tick
    \/ \E wo \in LedgerWorkOrders : CreateFromWorkOrder(wo, DefaultData)
    \/ \E i \in InvoiceIds : DeletionsBounded /\ DeleteInvoice(i)
    \/ \E i \in InvoiceIds : CreateFromInvoice(i)
    \/ \E i \in InvoiceIds : CreatePartial(i, OneUnitRequest)

SpecNumbering == InitNumbering /\ [][NextNumbering]_vars

\* the progressive numbers in use in a year, the archived ones included
IssuedValues(year) ==
    {DigitsValue(i.invoice_number.digits) :
        i \in {j \in invoices : j.invoice_number.year = year}}
    \cup (IF year = BaseYear THEN 1..archived ELSE {})

\* C8: the invoice numbers of a year are 0001, 0002, ... with no gap, also
\* after invoices have been deleted.
C8_GapFreeNumbering ==
    \A year \in {BaseYear, BaseYear + 1} :
        IssuedValues(year) = 1..Cardinality(IssuedValues(year))

\* C9: when the highest number of the year is 9999 the next build fails with
\* the capacity error and persists nothing, for invoices and for credit
\* notes alike; no number ever leaves 0001..9999 or its four digits.
C9_CapacityError ==
    /\ [](/\ \A i \in invoices :
                /\ Len(i.invoice_number.digits) = NumberWidth
                /\ DigitsValue(i.invoice_number.digits) \in 1..MaxNumber
          /\ \A c \in creditNotes :
                /\ Len(c.credit_note_number.digits) = NumberWidth
                /\ DigitsValue(c.credit_note_number.digits) \in 1..MaxNumber)
    /\ [][/\ \A wo \in LedgerWorkOrders :
                (/\ CreateFromWorkOrder(wo, DefaultData)
                 /\ workOrders[wo].status = "completed"
                 /\ \A i \in invoices : i.work_order_id # wo
                 /\ NextNumber(RequestYear(DefaultData), "invoice") > MaxNumber)
                => /\ lastResult'.kind = "conflict"
                   /\ invoices' = invoices
                   /\ workOrders' = workOrders
                   /\ declarations' = declarations
          /\ \A i \in InvoiceIds :
                (/\ \/ CreateFromInvoice(i)
                    \/ CreatePartial(i, OneUnitRequest)
                 /\ \E inv \in invoices : inv.id = i /\ credited_amount(inv) < inv.total
                 /\ NextNumber(YearOf(today), "credit_note") > MaxNumber)
                => /\ lastResult'.kind = "conflict"
                   /\ creditNotes' = creditNotes]_vars

\* the year is full, for invoices and for credit notes, and the last request
\* was turned down for it
C9_Witness ==
    /\ NextNumber(YearOf(today), "invoice") > MaxNumber
    /\ NextNumber(YearOf(today), "credit_note") > MaxNumber
    /\ lastResult.kind = "conflict"
    /\ \E i \in invoices : DigitsValue(i.invoice_number.digits) = MaxNumber
    /\ \E c \in creditNotes : DigitsValue(c.credit_note_number.digits) = MaxNumber

----------------------------------------------------------------------------
(* The credit-limit check of the ledger specification *)

\* the allocations to the invoices of a client
AllocatedToClient(client_id) ==
    SumAmount({a \in allocations :
                 \E i \in ClientInvoices(client_id) : i.id = a.invoice_id})

\* C10: the paid amount the credit-limit check works with is the sum of the
\* allocation amounts on the client's invoices.
C10_CreditLimitPaidAmount ==
    [][\A wo \in LedgerWorkOrders, data \in {DefaultData, PastData} :
          (CreateFromWorkOrder(wo, data) /\ lastResult'.total_paid # -1)
          => lastResult'.total_paid = AllocatedToClient(WorkOrderClient(wo))]_vars


----------------------------------------------------------------------------
(* Specification of concurrent builds: two transactions of
   create_from_work_order interleave, for invoices of this year and of the
   next. *)

NextYearData == [DefaultData EXCEPT !.invoice_date = StartDay + DaysPerYear]

NextConcurrent ==
    \/ \E t \in Sessions, wo \in WorkOrders, data \in {DefaultData, NextYearData} :
          TxnBegin(t, wo, data)
    \/ \E t \in Sessions : TxnLock(t)
    \/ \E t \in Sessions : TxnNumber(t)
    \/ \E t \in Sessions : TxnCompute(t)
    \/ \E t \in Sessions : TxnCommit(t)

SpecConcurrent == Init /\ [][NextConcurrent]_vars

\* the transactions that have obtained a number
Numbered == {t \in Sessions : sessions[t].pc \in {"numbered", "computed"}}

\* C7: two concurrent builds for different work orders in one year never
\* obtain the same invoice number: the lock of the year is held to the end
\* of the transaction, so the second reads the first's number only after it
\* is committed, and both commit with distinct numbers.
C7_ConcurrentNumbersDistinct ==
    /\ \A t, u \in Numbered : sessions[t].number = sessions[u].number => t = u
    /\ \A t \in Numbered, i \in invoices : i.invoice_number # sessions[t].number
    /\ \A a, b \in invoices : a.invoice_number = b.invoice_number => a = b
    /\ \A t, u \in Sessions :
          (t # u /\ HoldsAdvisoryLock(t, BaseYear)) => ~HoldsAdvisoryLock(u, BaseYear)
    /\ lastResult.kind # "conflict"

\* one transaction holds a number of the year while the other, on another
\* work order of the same year, waits for the lock, after a first invoice
\* of the year has been committed
C7_Witness ==
    \E t, u \in Sessions :
        /\ sessions[t].pc = "numbered"
        /\ sessions[u].pc = "checked"
        /\ sessions[t].wo # sessions[u].wo
        /\ RequestYear(sessions[t].data) = RequestYear(sessions[u].data)
        /\ sessions[t].number = FormatNumber(BaseYear, 2)


----------------------------------------------------------------------------
(* Specification of the tax rules: the billing client's fiscal profile, its
   declarations of intent and the amounts of the work orders are drawn at
   the start; then invoices are built. *)

\* an expiry date after every invoice date of the model, and one before
FarExpiry == StartDay + 2 * DaysPerYear
PastExpiry == StartDay - 1

\* the declarations of client 1 at the start
DeclarationSets ==
    { {},
      {Declaration(1, 1, 50000, FarExpiry, TRUE)},
      {Declaration(1, 1, 15000, FarExpiry, TRUE)},
      {Declaration(1, 1, 5000, FarExpiry, TRUE)},
      {Declaration(1, 1, 50000, PastExpiry, TRUE)},
      {Declaration(1, 1, 50000, FarExpiry, TRUE), Declaration(2, 1, 50000, FarExpiry, TRUE)} }

\* regime and exemption flag of client 1
FiscalProfiles ==
    {<<"RF01", FALSE>>, <<"RF01", TRUE>>, <<"RF19", FALSE>>, <<"RF02", FALSE>>}

\* credit limit and policy of client 1
CreditProfiles == {<<None, "warn">>, <<15000, "block">>, <<15000, "warn">>}

\* work orders of one labor hour priced at the stamp-duty threshold (work
\* order 1) and one cent above it (the others)
ThresholdItems(w) ==
    << [item_type |-> "labor", quantity |-> 1,
        unit_price |-> StampDutyThreshold + (IF w = 1 THEN 0 ELSE 1)] >>

InitTax ==
    \E fiscal \in FiscalProfiles, credit \in CreditProfiles, discount \in {0, 10},
       decls \in DeclarationSets, threshold \in BOOLEAN :
        /\ today = StartDay
        /\ deposits = {}
        /\ clients = [c \in Clients |->
                         IF c = 1
                         THEN [Profile(credit[1], credit[2], fiscal[1], discount)
                                  EXCEPT !.vat_exemption = fiscal[2]]
                         ELSE Profile(None, "warn", "RF01", 10)]
        /\ workOrders = [w \in WorkOrders |->
                            [client_id |-> WorkOrderClient(w), status |-> "completed",
                             items |-> IF threshold THEN ThresholdItems(w)
                                       ELSE WorkOrderItems(w),
                             part_usages |-> IF threshold THEN << >> ELSE PartUsages(w)]]
        /\ invoices = {}
        /\ payments = {}
        /\ allocations = {}
        /\ creditNotes = {}
        /\ declarations = decls
        /\ archived = 0
        /\ lastResult = Result("ok")
        /\ sessions = [t \in Sessions |-> IdleSession]

TaxRequests ==
    {DefaultData, [DefaultData EXCEPT !.vat_rate = 0],
     [DefaultData EXCEPT !.bill_to_client_id = 2]}

NextTax ==
    \E wo \in LedgerWorkOrders, data \in TaxRequests : CreateFromWorkOrder(wo, data)

SpecTax == InitTax /\ [][NextTax]_vars

\* the invoice steps 6..13 price for a request, before the credit-limit check
ProspectiveInvoice(wo, data) ==
    PriceInvoice(wo, workOrders[wo].client_id, BillingClient(wo, data), data,
                 FreshId(InvoiceIds, {i.id : i \in invoices}),
                 GenerateNumber(RequestYear(data), "invoice"))

\* a request that reaches the credit-limit check and exceeds the limit
ExceedsCreditLimit(wo, data) ==
    LET client == clients[workOrders[wo].client_id]
        priced == ProspectiveInvoice(wo, data)
    IN /\ PreCheck(wo, data) = "ok"
       /\ priced.kind = "ok"
       /\ client.credit_limit # None
       /\ client.credit_limit > 0
       /\ \E i \in priced.invoice :
              CurrentExposure(workOrders[wo].client_id) + i.total > client.credit_limit

\* C11: when the client has a positive credit limit and exposure + prospective
\* total exceeds it, create_from_work_order fails with a business-validation
\* error under policy "block", leaving invoices, work orders and declaration
\* balances as they were, and under any other policy creates the invoice
\* with the credit-limit warning in its notes.
C11_CreditLimitPolicy ==
    [][\A wo \in LedgerWorkOrders, data \in TaxRequests :
          (CreateFromWorkOrder(wo, data) /\ ExceedsCreditLimit(wo, data)) =>
              IF clients[workOrders[wo].client_id].credit_limit_action = "block"
              THEN /\ lastResult'.kind = "business_validation"
                   /\ UNCHANGED <<invoices, workOrders, declarations>>
              ELSE /\ lastResult'.kind = "ok"
                   /\ \E i \in invoices' \ invoices :
                          i.work_order_id = wo /\ i.credit_limit_warning]_vars

\* a build blocked by the credit limit after an earlier invoice consumed part
\* of a declaration: the balance is still the one of the earlier invoice
C11_Witness ==
    /\ lastResult.kind = "business_validation"
    /\ lastResult.total_paid # -1
    /\ clients[1].credit_limit_action = "block"
    /\ \E d \in declarations, i \in invoices :
           i.vat_notes = "intent" /\ d.used_amount = i.subtotal
    /\ \E w \in LedgerWorkOrders : workOrders[w].status = "completed"

----------------------------------------------------------------------------
(* Amounts recomputed from the persisted invoice and its lines *)

\* the discounted net of a persisted line before any rounding, in 1/100 cent
LineNet4(line) ==
    line.quantity * line.unit_price * 100 -
    (IF line.discount_percent > 0
     THEN line.quantity * line.unit_price * line.discount_percent ELSE 0)

RECURSIVE SumZeroRatedNet4(_)
\* the nets of the zero-rated lines of a list of persisted lines
SumZeroRatedNet4(lines) ==
    IF lines = <<>> THEN 0
    ELSE (IF Head(lines).vat_rate = 0 THEN LineNet4(Head(lines)) ELSE 0) +
         SumZeroRatedNet4(Tail(lines))

\* the exempt subtotal of an invoice: the whole subtotal of an exempt invoice,
\* the zero-rated lines of the others
ExemptSubtotal4(i) ==
    IF i.vat_exemption THEN i.subtotal * 100 ELSE SumZeroRatedNet4(i.lines)

\* C12: stamp duty is applied exactly when the exempt subtotal of the invoice
\* is strictly greater than the threshold; at the threshold the invoice has
\* stamp_duty_applied false and amount 0, above it true and the configured amount.
C12_StampDutyThreshold ==
    \A i \in invoices :
        /\ i.stamp_duty_applied = (ExemptSubtotal4(i) > StampDutyThreshold * 100)
        /\ i.stamp_duty_amount = (IF i.stamp_duty_applied THEN StampDutyAmount ELSE 0)

\* one invoice exactly at the threshold without stamp duty, another one cent
\* above it with stamp duty
C12_Witness ==
    /\ \E i \in invoices :
           /\ ExemptSubtotal4(i) = StampDutyThreshold * 100
           /\ ~i.stamp_duty_applied
           /\ i.total = i.subtotal
    /\ \E i \in invoices :
           /\ ExemptSubtotal4(i) = (StampDutyThreshold + 1) * 100
           /\ i.stamp_duty_applied
           /\ i.total = i.subtotal + StampDutyAmount

\* C13: every invoice persisted by create_from_work_order, under any regime,
\* with or without an applied declaration of intent and with lines of mixed
\* rates, has total = subtotal + vat_amount + stamp_duty_amount (whole cents).
C13_TotalIdentity ==
    \A i \in invoices :
        /\ i.total = i.subtotal + i.vat_amount + i.stamp_duty_amount
        /\ {i.total, i.subtotal, i.vat_amount, i.stamp_duty_amount} \subseteq Nat

\* an invoice under an applied declaration with stamp duty, next to an
\* invoice with lines of two different rates and VAT
C13_Witness ==
    /\ \E i \in invoices :
           i.vat_notes = "intent" /\ i.stamp_duty_applied /\ i.vat_amount = 0
    /\ \E i \in invoices :
           /\ i.vat_amount > 0
           /\ \E k, l \in DOMAIN i.lines : i.lines[k].vat_rate # i.lines[l].vat_rate

\* InvoiceLine.subtotal: quantity * unit_price less the stored discount amount
InvoiceLineSubtotal(line) ==
    RoundHalfUp((line.quantity * line.unit_price - line.discount_amount) * 100, 100)

RECURSIVE SumLineSubtotals(_)
\* sum(line.subtotal for line in lines)
SumLineSubtotals(lines) ==
    IF lines = <<>> THEN 0
    ELSE InvoiceLineSubtotal(Head(lines)) + SumLineSubtotals(Tail(lines))

\* C14: the subtotal of every persisted invoice equals the sum of the
\* subtotals of its lines, each line subtotal being quantity * unit_price
\* less the stored discount amount, rounded half-up to cents.
C14_SubtotalIsLineSum ==
    \A i \in invoices : i.subtotal = SumLineSubtotals(i.lines)

\* the date of the invoice a request asks for
RequestDate(data) == IF data.invoice_date # NoDate THEN data.invoice_date ELSE today

\* C15: whenever the billing party has an active, unexpired declaration whose
\* remaining balance covers the invoice total, create_from_work_order applies
\* it: the invoice is zero-rated with the declaration-of-intent note and the
\* declaration's used_amount grows, also for a party with regime RF19/RF02
\* or the exemption flag.
C15_IntentDeclarationFirst ==
    [][\A wo \in LedgerWorkOrders, data \in TaxRequests :
          (CreateFromWorkOrder(wo, data) /\ PreCheck(wo, data) = "ok") =>
              \A d \in declarations, i \in invoices' \ invoices :
                  (/\ ActiveIntents(BillingClient(wo, data), RequestDate(data)) = {d}
                   /\ intent_remaining_amount(d) >= i.total) =>
                      /\ i.vat_notes = "intent"
                      /\ i.vat_rate = 0
                      /\ i.vat_amount = 0
                      /\ \E e \in declarations' :
                             e.id = d.id /\ e.used_amount > d.used_amount]_vars

\* the rounded subtotal of the invoice a request asks for (Step 6)
ProspectiveSubtotal(wo, data) ==
    RoundHalfUp(SumNet4(PricedLines(wo,
        clients[BillingClient(wo, data)].default_discount_percent, data.vat_rate)), 100)

\* C16: whenever the billing party has an active, unexpired declaration whose
\* remaining balance is smaller than the invoice total, create_from_work_order
\* fails with a business-validation error, persists no invoice and leaves the
\* declaration and the work order unchanged; it never falls back to another
\* rate or regime.
C16_InsufficientDeclarationFails ==
    [][\A wo \in LedgerWorkOrders, data \in TaxRequests :
          (/\ CreateFromWorkOrder(wo, data)
           /\ PreCheck(wo, data) = "ok"
           /\ \E d \in declarations :
                  /\ ActiveIntents(BillingClient(wo, data), RequestDate(data)) = {d}
                  /\ intent_remaining_amount(d) < ProspectiveSubtotal(wo, data)) =>
              /\ lastResult'.kind = "business_validation"
              /\ UNCHANGED <<invoices, declarations, workOrders>>]_vars

\* the client an invoice is made out to
InvoiceBillingClient(i) ==
    IF i.bill_to_client_id # None THEN i.bill_to_client_id ELSE i.client_id

\* C18: an invoice whose billing party has regime RF19 or RF02 or the VAT
\* exemption flag has rate 0 everywhere: invoice.vat_rate = 0,
\* invoice.vat_amount = 0 and every line, part lines included, has vat_rate 0.
C18_RegimeForcesZeroRate ==
    \A i \in invoices :
        RegimeExempt(clients[InvoiceBillingClient(i)]) =>
            /\ i.vat_rate = 0
            /\ i.vat_amount = 0
            /\ \A k \in DOMAIN i.lines : i.lines[k].vat_rate = 0

----------------------------------------------------------------------------
(* Specification of the declarations of intent: creations and updates through
   the API, and invoice builds that apply a declaration. *)

\* the limit of a new declaration
DeclarationLimits == {20000}

\* an IntentDeclarationUpdate with no field set
NoUpdate ==
    [amount_limit |-> Unset, used_amount |-> Unset, expiry_date |-> NoDate,
     is_active |-> "unset"]

\* the updates of the model: a lower limit, a used amount within and beyond
\* the limit, a past expiry date, deactivation and reactivation
IntentUpdates ==
    {[NoUpdate EXCEPT !.amount_limit = 9000],
     [NoUpdate EXCEPT !.used_amount = 5000],
     [NoUpdate EXCEPT !.used_amount = 50000],
     [NoUpdate EXCEPT !.expiry_date = PastExpiry],
     [NoUpdate EXCEPT !.is_active = "false"],
     [NoUpdate EXCEPT !.is_active = "true"]}

NextIntent ==
    \/ \E c \in Clients, limit \in DeclarationLimits :
           CreateIntentDeclaration(c, limit, FarExpiry, TRUE)
    \/ \E id \in DeclarationIds, data \in IntentUpdates :
           UpdateIntentDeclaration(id, data)
    \/ \E wo \in LedgerWorkOrders : CreateFromWorkOrder(wo, DefaultData)

SpecIntent == Init /\ [][NextIntent]_vars

\* C17: after any sequence of declaration creations, updates through the API
\* and invoice builds, every declaration has used_amount <= amount_limit, and
\* used_amount changes only in a build that applies the declaration.
C17_UsedAmountWithinLimit ==
    /\ [](\A d \in declarations : d.used_amount <= d.amount_limit)
    /\ [][\A d \in declarations, e \in declarations' :
             (e.id = d.id /\ e.used_amount # d.used_amount) =>
                 \E i \in invoices' \ invoices :
                     /\ i.vat_notes = "intent"
                     /\ e.used_amount = d.used_amount + i.subtotal]_vars

----------------------------------------------------------------------------
(* Specification of the automatic strategies: invoices of different dates
   and terms, the clock moving past some due dates, payments allocated by
   fifo and overdue_first. *)

\* an invoice dated before the others and due after them
LongTermData == [PastData EXCEPT !.due_date = StartDay + 100]

AutomaticStrategies == {"fifo", "overdue_first"}

NextGreedy ==
    \/ \E wo \in LedgerWorkOrders, data \in {DefaultData, LongTermData} :
          CreateFromWorkOrder(wo, data)
    \/ Tick
    \/ \E amount \in PaymentAmounts, strategy \in AutomaticStrategies :
          CreatePayment(1, amount, strategy, << >>)

SpecGreedy == Init /\ [][NextGreedy]_vars

\* what the rows added by a step give to an invoice
Received(inv) ==
    SumAmount({a \in allocations' \ allocations : a.invoice_id = inv.id})

\* the client's invoices with remaining > 0 before the step
OpenBefore(client_id) ==
    {i \in ClientInvoices(client_id) : remaining_amount(i, allocations) > 0}

\* sum(i.remaining_amount for i in S)
SumRemaining(S) ==
    SumAmount({[id |-> i.id, amount |-> remaining_amount(i, allocations)] : i \in S})

OpenTransactions == {t \in Sessions : sessions[t].pc # "idle"}

\* C20: at every moment at most one invoice exists per work order, also when
\* two create_from_work_order calls for the same completed work order run
\* concurrently: the row lock lets one of them through at a time, the one
\* that comes second finds the work order invoiced and fails without
\* persisting anything, and every commit adds exactly one invoice for a work
\* order that had none.
C20_OneInvoicePerWorkOrder ==
    /\ [](/\ \A a, b \in invoices : a.work_order_id = b.work_order_id => a = b
          /\ \A t, u \in OpenTransactions :
                 sessions[t].wo = sessions[u].wo => t = u
          /\ \A t \in OpenTransactions :
                 /\ workOrders[sessions[t].wo].status = "completed"
                 /\ \A i \in invoices : i.work_order_id # sessions[t].wo
          /\ lastResult.kind # "ok" => lastResult.kind = "business_validation")
    /\ [][/\ invoices' # invoices =>
                /\ lastResult'.kind = "ok"
                /\ \E i \in invoices' \ invoices :
                       /\ invoices' = invoices \cup {i}
                       /\ \A j \in invoices : j.work_order_id # i.work_order_id
          /\ lastResult'.kind # "ok" =>
                UNCHANGED <<invoices, workOrders, declarations>>]_vars

\* a call for a work order that another call has just invoiced has failed
\* with a business-validation error; the work order has its one invoice
C20_Witness ==
    /\ lastResult.kind = "business_validation"
    /\ OpenTransactions = {}
    /\ \E i \in invoices :
           /\ workOrders[i.work_order_id].status = "invoiced"
           /\ \A j \in invoices : j.work_order_id = i.work_order_id => j = i
    /\ \E w \in WorkOrders : workOrders[w].status = "completed"

\* the batches whose first entry the loop accepts and whose second entry fails
\* validation against the persisted allocations without the rows of payment pid
FailingAtSecondEntry(pid) ==
    LET kept == {a \in allocations : a.payment_id # pid}
    IN {batch \in Batches :
           /\ Len(batch) = 2
           /\ Len(ManualAccepted(batch, 1, kept)) = 1
           /\ ManualLoopError(batch, 1, kept) = "business_validation"}

\* C21: a ledger operation that fails part-way leaves the persisted state as
\* it was: a manual create_payment whose k-th entry fails persists neither the
\* payment nor its earlier allocations, and a reallocate_payment whose new
\* list fails keeps the previous allocations of the payment. Every operation
\* of the ledger reports its outcome, so a step that ends with an error is a
\* failed operation.
C21_FailedOperationPersistsNothing ==
    [][lastResult'.kind # "ok" =>
          UNCHANGED <<payments, allocations, invoices, workOrders, creditNotes,
                      declarations>>]_vars

\* a manual request has just failed with a business-validation error in a
\* state where a batch fails at its second entry after a first accepted one,
\* for a new payment and for the reallocation of a payment that keeps its rows
C21_Witness ==
    /\ lastResult.kind = "business_validation"
    /\ FailingAtSecondEntry(None) # {}
    /\ \E p \in payments :
           /\ allocated_amount(p) > 0
           /\ \E batch \in FailingAtSecondEntry(p.id) : SumSeqAmount(batch) <= p.amount

----------------------------------------------------------------------------
(* Specification of the deposits: deposits are registered, applied to
   invoices and refunded, next to invoice builds and automatic payments. *)

DepositAmounts == {5000, 10000}

NextDeposit ==
    \/ \E wo \in LedgerWorkOrders : CreateFromWorkOrder(wo, DefaultData)
    \/ \E amount \in DepositAmounts : CreateDeposit(1, amount)
    \/ \E d \in DepositIds, i \in InvoiceIds : ApplyToInvoice(d, i)
    \/ \E d \in DepositIds : Refund(d)
    \/ \E amount \in PaymentAmounts : CreatePayment(1, amount, "fifo", << >>)

SpecDeposit == Init /\ [][NextDeposit]_vars

\* C22: a deposit only moves pending -> applied or pending -> refunded;
\* applied and refunded are terminal, apply_to_invoice and refund on a
\* non-pending deposit end with a business-validation error and change
\* nothing, and each successful apply_to_invoice adds exactly one payment of
\* deposit.amount with exactly one allocation of the full amount to the
\* chosen invoice.
C22_DepositLifecycle ==
    [][/\ \A d \in deposits :
              \E e \in deposits' :
                  /\ e.id = d.id
                  /\ e.amount = d.amount
                  /\ e.status # d.status =>
                         d.status = "pending" /\ e.status \in {"applied", "refunded"}
                  /\ (d.status = "pending" /\ e.status = "applied") =>
                         \E p \in payments' \ payments, a \in allocations' \ allocations :
                             /\ payments' = payments \cup {p}
                             /\ allocations' = allocations \cup {a}
                             /\ p.amount = d.amount
                             /\ a.payment_id = p.id
                             /\ a.amount = d.amount
                             /\ a.invoice_id = e.invoice_id
                  /\ (d.status = "pending" /\ e.status = "refunded") =>
                         UNCHANGED <<payments, allocations>>
       /\ \A d \in deposits :
              d.status # "pending" =>
                  /\ \A i \in InvoiceIds :
                         ApplyToInvoice(d.id, i) =>
                             /\ lastResult'.kind = "business_validation"
                             /\ UNCHANGED <<deposits, payments, allocations>>
                  /\ Refund(d.id) =>
                         /\ lastResult'.kind = "business_validation"
                         /\ UNCHANGED <<deposits, payments, allocations>>]_vars

\* one deposit applied to an invoice and another refunded, and the last
\* request, on a deposit that was no longer pending, rejected
C22_Witness ==
    /\ lastResult.kind = "business_validation"
    /\ \E d \in deposits :
           /\ d.status = "applied"
           /\ \E a \in allocations : a.invoice_id = d.invoice_id /\ a.amount = d.amount
    /\ \E d \in deposits : d.status = "refunded"
    /\ \A d \in deposits : d.status # "pending"

\* C24: apply_to_invoice preserves the allocation bound: after any sequence
\* of payments and deposit applications the allocations of every invoice add
\* up to at most invoice.total, a deposit larger than the remaining amount of
\* the invoice being rejected.
C24_DepositAllocationBound ==
    \A i \in invoices :
        /\ paid_amount(i, allocations) <= i.total
        /\ remaining_amount(i, allocations) >= 0

\* InvoiceRead.status: the status the read schema computes from total,
\* payment_allocations and due_date
InvoiceRead_status(inv) ==
    IF paid_amount(inv, allocations) >= inv.total THEN "paid"
    ELSE IF paid_amount(inv, allocations) > 0 THEN "partial"
    ELSE IF today > inv.due_date THEN "overdue"
    ELSE "unpaid"

\* C23: for every invoice without credit notes the status reported through
\* the read schema equals the status derived by the model; a partially paid
\* invoice past its due date is reported as overdue.
C23_ReadStatusEqualsModelStatus ==
    \A i \in invoices :
        CreditNotesOf(i.id) = {} => InvoiceRead_status(i) = status(i)

\* C25: when the next number of the year would exceed 9999, the build and the
\* credit-note operations fail with the business-validation kind, never with
\* the conflict kind that callers may retry.
C25_CapacityIsBusinessValidation ==
    [][/\ \A wo \in LedgerWorkOrders :
              (/\ CreateFromWorkOrder(wo, DefaultData)
               /\ PreCheck(wo, DefaultData) = "ok"
               /\ NextNumber(RequestYear(DefaultData), "invoice") > MaxNumber)
              => lastResult'.kind = "business_validation"
       /\ \A i \in InvoiceIds :
              (/\ CreateFromInvoice(i)
               /\ \E inv \in invoices : inv.id = i /\ credited_amount(inv) < inv.total
               /\ NextNumber(YearOf(today), "credit_note") > MaxNumber)
              => lastResult'.kind = "business_validation"]_vars

\* total of the invoices made out to a party less what is allocated to them
BillingExposure(billing_id) ==
    LET billed == {i \in invoices : InvoiceBillingClient(i) = billing_id}
    IN SumTotal(billed) - SumAmount({a \in allocations :
                                        \E i \in billed : a.invoice_id = i.id})

\* C26: when an invoice is billed to a third party, the credit-limit guard of
\* create_from_work_order is evaluated on the billing party: its credit
\* limit, its policy and the exposure of its invoices decide whether the
\* build is blocked, warned or let through.
C26_CreditLimitOfBillingParty ==
    [][\A wo \in LedgerWorkOrders, data \in TaxRequests :
          (/\ data.bill_to_client_id # None
           /\ CreateFromWorkOrder(wo, data)
           /\ PreCheck(wo, data) = "ok"
           /\ ProspectiveInvoice(wo, data).kind = "ok") =>
              LET party == clients[data.bill_to_client_id]
                  exceeded ==
                      /\ party.credit_limit # None
                      /\ party.credit_limit > 0
                      /\ \E i \in ProspectiveInvoice(wo, data).invoice :
                             BillingExposure(data.bill_to_client_id) + i.total >
                                 party.credit_limit
              IN IF exceeded /\ party.credit_limit_action = "block"
                 THEN lastResult'.kind = "business_validation"
                 ELSE /\ lastResult'.kind = "ok"
                      /\ \E i \in invoices' \ invoices :
                             i.credit_limit_warning = exceeded]_vars

----------------------------------------------------------------------------
(* Specification of the full reversal over invoices whose lines have VAT with
   fractions of a cent: work order 1 has two lines of 10.02. *)

\* two lines whose VAT at 22% is 2.2044 each
RoundingItems ==
    << [item_type |-> "labor", quantity |-> 1, unit_price |-> 1002],
       [item_type |-> "service", quantity |-> 1, unit_price |-> 1002] >>

InitRounding ==
    /\ workOrders = [w \in WorkOrders |->
                        [client_id |-> WorkOrderClient(w), status |-> "completed",
                         items |-> IF w = 1 THEN RoundingItems ELSE WorkOrderItems(w),
                         part_usages |-> IF w = 1 THEN << >> ELSE PartUsages(w)]]
    /\ today = StartDay
    /\ deposits = {}
    /\ clients = [c \in Clients |->
                     IF c = 1 THEN Profile(30000, "block", "RF01", 0)
                     ELSE Profile(None, "warn", "RF01", 10)]
    /\ invoices = {}
    /\ payments = {}
    /\ allocations = {}
    /\ creditNotes = {}
    /\ declarations = {}
    /\ archived = 0
    /\ lastResult = Result("ok")
    /\ sessions = [t \in Sessions |-> IdleSession]

NextRounding ==
    \/ \E wo \in WorkOrders, data \in BuildRequests : CreateFromWorkOrder(wo, data)
    \/ \E i \in InvoiceIds : CreateFromInvoice(i)

SpecRounding == InitRounding /\ [][NextRounding]_vars

\* C27: a full reversal of an invoice that has no credit note yet produces a
\* credit note whose subtotal, vat_amount, stamp_duty_amount and total are
\* the exact negation of those of the invoice.
C27_FullReversalNegatesInvoice ==
    [][\A inv \in invoices :
          (/\ CreateFromInvoice(inv.id)
           /\ CreditNotesOf(inv.id) = {}
           /\ lastResult'.kind = "ok") =>
              \E cn \in creditNotes' \ creditNotes :
                  /\ cn.invoice_id = inv.id
                  /\ cn.subtotal = -inv.subtotal
                  /\ cn.vat_amount = -inv.vat_amount
                  /\ cn.stamp_duty_amount = -inv.stamp_duty_amount
                  /\ cn.total = -inv.total]_vars

----------------------------------------------------------------------------
(* Concurrent payment transactions: create_payment in two sessions *)

\* the sessions that have flushed a Payment and not yet committed
PayingSessions == {t \in Sessions : sessions[t].pc \in {"allocated", "applying"}}

\* the ids of the payments already inserted, committed or not
TakenPaymentIds ==
    {q.id : q \in payments} \cup {sessions[t].payment.id : t \in PayingSessions}

\* create_payment up to its commit: the Payment is flushed, then
\* _allocate_payment reads the invoices and their committed allocations with
\* plain SELECTs and adds its rows to the session
PayBegin(t, client_id, amount, strategy, batch) ==
    /\ sessions[t].pc = "idle"
    /\ Cardinality(TakenPaymentIds) < MaxPayments
    /\ LET p == [id |-> FreshId(PaymentIds, TakenPaymentIds),
                 client_id |-> client_id, amount |-> amount, reference |-> None]
       IN IF client_id \notin DOMAIN clients
          THEN Rollback(t, "not_found", -1)
          ELSE \E out \in AllocatePayment(p, strategy, batch, allocations) :
                  IF out.kind = "ok"
                  THEN /\ sessions' = [sessions EXCEPT ![t] =
                                          [pc |-> "allocated", payment |-> p,
                                           rows |-> out.table \ allocations]]
                       /\ UNCHANGED lastResult
                  ELSE Rollback(t, out.kind, -1)
    /\ UNCHANGED <<today, clients, deposits, workOrders, invoices, payments,
                   allocations, creditNotes, declarations, archived>>

\* the single commit of create_payment: the payment and the rows computed at
\* PayBegin are written; the database checks only its own constraints
PayCommit(t) ==
    /\ sessions[t].pc = "allocated"
    /\ IF AllocationConstraintsOk(allocations \cup sessions[t].rows)
       THEN /\ payments' = payments \cup {sessions[t].payment}
            /\ allocations' = allocations \cup sessions[t].rows
            /\ sessions' = [sessions EXCEPT ![t] = IdleSession]
            /\ lastResult' = Result("ok")
       ELSE /\ Rollback(t, "integrity_error", -1)
            /\ UNCHANGED <<payments, allocations>>
    /\ UNCHANGED <<today, clients, deposits, workOrders, invoices, creditNotes,
                   declarations, archived>>

ConcurrentAmounts == {5000, 10000, 20000}

ConcurrentBatches == {<<[invoice_id |-> 1, amount |-> 10000]>>,
                      <<[invoice_id |-> 1, amount |-> 5000],
                        [invoice_id |-> 2, amount |-> 5000]>>}

NextConcurrentPayments ==
    \/ \E wo \in LedgerWorkOrders : CreateFromWorkOrder(wo, DefaultData)
    \/ \E t \in Sessions, amount \in ConcurrentAmounts :
          \/ PayBegin(t, 1, amount, "fifo", << >>)
          \/ \E batch \in ConcurrentBatches : PayBegin(t, 1, amount, "manual", batch)
    \/ \E t \in Sessions : PayCommit(t)

SpecConcurrentPayments == Init /\ [][NextConcurrentPayments]_vars

\* the two sessions allocated to the same invoice and both committed
BothPaid(inv) ==
    Cardinality({a.payment_id : a \in {b \in allocations : b.invoice_id = inv.id}}) = 2

\* C28: after two concurrent payment transactions that allocate to the same
\* invoice have committed, the sum of the invoice's allocation amounts is at
\* most invoice.total
C28_ConcurrentAllocationBound ==
    \A inv \in invoices :
        (BothPaid(inv) /\ PayingSessions = {}) => paid_amount(inv, allocations) <= inv.total

----------------------------------------------------------------------------
(* Concurrent deposit transactions: apply_to_invoice and refund in two sessions *)

\* apply_to_invoice up to its commit: the deposit and the invoice are read
\* with db.get, checked, and the Payment is flushed
ApplyBegin(t, deposit_id, invoice_id) ==
    LET found == {d \in deposits : d.id = deposit_id}
        target == {i \in invoices : i.id = invoice_id}
        deposit == CHOOSE d \in found : TRUE
        check == ApplyCheck(found, target)
    IN /\ sessions[t].pc = "idle"
       /\ Cardinality(TakenPaymentIds) < MaxPayments
       /\ IF check # "ok"
          THEN Rollback(t, check, -1)
          ELSE /\ sessions' = [sessions EXCEPT ![t] =
                                  [pc |-> "applying", deposit_id |-> deposit_id,
                                   invoice_id |-> invoice_id,
                                   payment |-> [id |-> FreshId(PaymentIds, TakenPaymentIds),
                                                client_id |-> deposit.client_id,
                                                amount |-> deposit.amount,
                                                reference |-> deposit.id]]]
               /\ UNCHANGED lastResult
       /\ UNCHANGED <<today, clients, deposits, workOrders, invoices, payments,
                      allocations, creditNotes, declarations, archived>>

\* the commit of apply_to_invoice: the allocation is inserted and the deposit
\* row is updated by primary key, whatever its committed status is by now
ApplyCommit(t) ==
    LET s == sessions[t]
        row == AllocationRow(s.payment.id, 1, s.invoice_id, s.payment.amount)
    IN /\ s.pc = "applying"
       /\ IF AllocationConstraintsOk(allocations \cup {row})
          THEN /\ payments' = payments \cup {s.payment}
               /\ allocations' = allocations \cup {row}
               /\ deposits' = {IF d.id = s.deposit_id
                               THEN [d EXCEPT !.status = "applied",
                                              !.invoice_id = s.invoice_id]
                               ELSE d : d \in deposits}
               /\ sessions' = [sessions EXCEPT ![t] = IdleSession]
               /\ lastResult' = Result("ok")
          ELSE /\ Rollback(t, "integrity_error", -1)
               /\ UNCHANGED <<payments, allocations, deposits>>
       /\ UNCHANGED <<today, clients, workOrders, invoices, creditNotes,
                      declarations, archived>>

\* refund up to its commit: the deposit is read with db.get and checked
RefundBegin(t, deposit_id) ==
    LET found == {d \in deposits : d.id = deposit_id}
    IN /\ sessions[t].pc = "idle"
       /\ IF found = {}
          THEN Rollback(t, "not_found", -1)
          ELSE IF ~DepositPending(CHOOSE d \in found : TRUE)
          THEN Rollback(t, "business_validation", -1)
          ELSE /\ sessions' = [sessions EXCEPT ![t] =
                                  [pc |-> "refunding", deposit_id |-> deposit_id]]
               /\ UNCHANGED lastResult
       /\ UNCHANGED <<today, clients, deposits, workOrders, invoices, payments,
                      allocations, creditNotes, declarations, archived>>

\* the commit of refund: the status column is updated by primary key
RefundCommit(t) ==
    /\ sessions[t].pc = "refunding"
    /\ deposits' = {IF d.id = sessions[t].deposit_id
                    THEN [d EXCEPT !.status = "refunded"] ELSE d : d \in deposits}
    /\ sessions' = [sessions EXCEPT ![t] = IdleSession]
    /\ lastResult' = Result("ok")
    /\ UNCHANGED <<today, clients, workOrders, invoices, payments, allocations,
                   creditNotes, declarations, archived>>

NextConcurrentDeposits ==
    \/ \E wo \in LedgerWorkOrders : CreateFromWorkOrder(wo, DefaultData)
    \/ \E amount \in DepositAmounts : CreateDeposit(1, amount)
    \/ \E t \in Sessions, d \in DepositIds, i \in InvoiceIds : ApplyBegin(t, d, i)
    \/ \E t \in Sessions : ApplyCommit(t)
    \/ \E t \in Sessions, d \in DepositIds : RefundBegin(t, d)
    \/ \E t \in Sessions : RefundCommit(t)

SpecConcurrentDeposits == Init /\ [][NextConcurrentDeposits]_vars

\* the payments apply_to_invoice created for a deposit (reference "Caparra <id>")
PaymentsOfDeposit(deposit) == {p \in payments : p.reference = deposit.id}

\* C29: a deposit yields at most one payment, and a refunded deposit yields
\* none, under any interleaving of apply_to_invoice and refund on it
C29_DepositConvertedOnce ==
    \A d \in deposits :
        /\ Cardinality(PaymentsOfDeposit(d)) <= 1
        /\ d.status = "refunded" => PaymentsOfDeposit(d) = {}

----------------------------------------------------------------------------
(* Work-order status: change_status, invoice builds and invoice deletions *)

WorkOrderStatus ==
    {"draft", "in_progress", "waiting_parts", "completed", "invoiced", "cancelled"}

VALID_TRANSITIONS(current_status) ==
    CASE current_status = "draft" -> {"in_progress", "cancelled"}
      [] current_status = "in_progress" -> {"waiting_parts", "completed", "cancelled"}
      [] current_status = "waiting_parts" -> {"in_progress", "cancelled"}
      [] current_status = "completed" -> {"invoiced"}
      [] OTHER -> {}

\* WorkOrderService.change_status
ChangeStatus(wo, new_status) ==
    /\ IF new_status \notin VALID_TRANSITIONS(workOrders[wo].status)
       THEN /\ lastResult' = Result("business_validation")
            /\ UNCHANGED workOrders
       ELSE /\ workOrders' = [workOrders EXCEPT ![wo].status = new_status]
            /\ lastResult' = Result("ok")
    /\ UNCHANGED <<sessions, today, clients, deposits, invoices, payments, allocations,
                   creditNotes, declarations, archived>>

\* every work order is a new draft
InitLifecycle ==
    /\ workOrders = [w \in WorkOrders |->
                        [client_id |-> WorkOrderClient(w), status |-> "draft",
                         items |-> WorkOrderItems(w), part_usages |-> PartUsages(w)]]
    /\ today = StartDay
    /\ deposits = {}
    /\ clients = [c \in Clients |->
                     IF c = 1 THEN Profile(30000, "block", "RF01", 0)
                     ELSE Profile(None, "warn", "RF01", 10)]
    /\ invoices = {}
    /\ payments = {}
    /\ allocations = {}
    /\ creditNotes = {}
    /\ declarations = {}
    /\ archived = 0
    /\ lastResult = Result("ok")
    /\ sessions = [t \in Sessions |-> IdleSession]

NextLifecycle ==
    \/ \E wo \in WorkOrders, new_status \in WorkOrderStatus : ChangeStatus(wo, new_status)
    \/ \E wo \in WorkOrders : CreateFromWorkOrder(wo, DefaultData)
    \/ \E i \in InvoiceIds : DeletionsBounded /\ DeleteInvoice(i)

SpecLifecycle == InitLifecycle /\ [][NextLifecycle]_vars

\* C30: a work order has status 'invoiced' if and only if an invoice exists
\* for it, after any sequence of status changes, builds and deletions
C30_InvoicedIffInvoiceExists ==
    \A wo \in WorkOrders :
        workOrders[wo].status = "invoiced" <=>
            \E inv \in invoices : inv.work_order_id = wo

====
